---- MODULE Spec2Model ----
(***************************************************************************)
(* Model of dupefile (src/dupefile.go, the program with configurable      *)
(* rules, lines 191-550): readRules, findFiles, calculateChecksums,       *)
(* reportAndResolveDuplicates, isIdentical, readFile, resolveDuplicate.   *)
(*                                                                         *)
(* A path or directory string is a sequence of tokens: the separator "/"  *)
(* or a name without separator.  File contents are sequences of bytes.    *)
(* The file system is the variable disk; another process may truncate or  *)
(* remove a file while the program runs (Interfere).                      *)
(***************************************************************************)
EXTENDS Integers, Sequences, FiniteSets, TLC

VARIABLES
    config,          \* the decoded rule list of the configuration file
    live,            \* Args.Live
    disk,            \* path -> [exists, data]
    disk0,           \* the disk when the run started (history)
    pc,              \* position of main
    rules,           \* result of readRules
    files,           \* the []*File inventory
    i,               \* loop index of the running loop
    checksumToFile,  \* digest -> index in files (the *File it points to)
    removed,         \* paths the run removed with os.Remove (history)
    log,             \* report lines
    err,             \* the fatal error, "" when none
    interfered       \* whether another process has changed a file

vars == <<config, live, disk, disk0, pc, rules, files, i, checksumToFile,
          removed, log, err, interfered>>

----------------------------------------------------------------------------
(* Bounds *)

MaxFiles == 3

MaxRules == 2

----------------------------------------------------------------------------
(* Paths *)

Sep == "/"

Root == <<Sep>>

\* path.Join(dir, name) for a cleaned dir and a single name
Join(dir, name) ==
    IF dir = Root THEN dir \o <<name>> ELSE dir \o <<Sep, name>>

\* strings.LastIndex(p, "/") + 1 : 0 when there is no separator
RECURSIVE LastSep(_, _)
LastSep(p, k) ==
    IF k = 0 THEN 0
    ELSE IF p[k] = Sep THEN k ELSE LastSep(p, k - 1)

\* path.Split: the directory keeps its trailing separator
SplitDir(p) == SubSeq(p, 1, LastSep(p, Len(p)))

\* the tree under Args.Dir: directory name, file name
TreeEntries ==
    { <<"a", "x.png">>, <<"a", "z.png">>, <<"b", "y.png">>, <<"b", "w.png">> }

PathOf(e) == Join(Join(Root, e[1]), e[2])

PathPool == { PathOf(e) : e \in TreeEntries }

PathAX == Join(Join(Root, "a"), "x.png")

PathBY == Join(Join(Root, "b"), "y.png")

----------------------------------------------------------------------------
(* Contents and digests *)

Contents == { <<>>, <<1>>, <<2>> }

NoFile == [exists |-> FALSE, data |-> <<>>]

OnDisk(c) == [exists |-> TRUE, data |-> c]

NilHash == "nil"

\* md5 over the modelled contents; <<1>> and <<2>> collide
md5Sum(c) ==
    IF c = <<>> THEN "d0" ELSE "d1"

----------------------------------------------------------------------------
(* Rules *)

DirA == <<Sep, "a", Sep>>

DirB == <<Sep, "b", Sep>>

DirANoSep == <<Sep, "a">>

DirBNoSep == <<Sep, "b">>

DirRel == <<"a", Sep>>

Rule(k, r) == [KeepDir |-> k, RemoveDir |-> r]

RuleKeepA == Rule(DirA, DirB)

RuleKeepB == Rule(DirB, DirA)

RuleReadme == Rule(DirANoSep, DirBNoSep)

RulePool ==
    { RuleKeepA, RuleKeepB, RuleReadme,
      Rule(<<>>, DirB), Rule(DirA, <<>>),
      Rule(DirRel, DirB), Rule(DirA, DirRel),
      Rule(DirA, DirA) }

\* rule lists of at most MaxRules rules, no rule written twice
Configs ==
    { c \in UNION { [1..n -> RulePool] : n \in 0..MaxRules } :
        \A j, k \in DOMAIN c : j # k => c[j] # c[k] }

NoErr == [msg |-> "", a |-> <<>>, b |-> <<>>]

Error(m, x, y) == [msg |-> m, a |-> x, b |-> y]

Line(k, x, y) == [kind |-> k, a |-> x, b |-> y]

\* RuleError testing only the keep directory for an absolute path
RuleErrorKeepOnly(rule) ==
    IF Len(rule.KeepDir) = 0 \/ Len(rule.RemoveDir) = 0
    THEN "rule is missing keep/remove directory"
    ELSE IF rule.KeepDir[1] # Sep
    THEN "rule has non-absolute keep/remove directory"
    ELSE IF rule.KeepDir = rule.RemoveDir
    THEN "rule has identical keep/remove directory"
    ELSE ""

\* the checks of one rule in readRules' loop
RuleError(rule) ==
    IF Len(rule.KeepDir) = 0 \/ Len(rule.RemoveDir) = 0
    THEN "rule is missing keep/remove directory"
    ELSE IF rule.KeepDir[1] # Sep \/ rule.RemoveDir[1] # Sep
    THEN "rule has non-absolute keep/remove directory"
    ELSE IF rule.KeepDir = rule.RemoveDir
    THEN "rule has identical keep/remove directory"
    ELSE ""

RECURSIVE checkRules(_, _)
checkRules(rs, k) ==
    IF k > Len(rs) THEN ""
    ELSE IF RuleError(rs[k]) # "" THEN RuleError(rs[k])
    ELSE checkRules(rs, k + 1)

readRules(cfg) ==
    IF Len(cfg) = 0
    THEN [rules |-> <<>>, err |-> "no rules found"]
    ELSE IF checkRules(cfg, 1) # ""
    THEN [rules |-> <<>>, err |-> checkRules(cfg, 1)]
    ELSE [rules |-> cfg, err |-> ""]

----------------------------------------------------------------------------
(* Identity Verifier *)

readFile(file, dsk) ==
    IF ~dsk[file.Path].exists
    THEN [contents |-> <<>>, err |-> "open"]
    ELSE IF Len(dsk[file.Path].data) # file.Size
    THEN [contents |-> <<>>, err |-> "short read"]
    ELSE [contents |-> dsk[file.Path].data, err |-> ""]

\* isIdentical without the comparison of the bytes
isIdenticalLengthOnly(file1, file2, dsk) ==
    LET r1 == readFile(file1, dsk)
        r2 == readFile(file2, dsk)
    IN  IF r1.err # "" THEN [identical |-> FALSE, err |-> r1.err]
        ELSE IF r2.err # "" THEN [identical |-> FALSE, err |-> r2.err]
        ELSE [identical |-> Len(r1.contents) = Len(r2.contents), err |-> ""]

isIdentical(file1, file2, dsk) ==
    LET r1 == readFile(file1, dsk)
        r2 == readFile(file2, dsk)
    IN  IF r1.err # "" THEN [identical |-> FALSE, err |-> r1.err]
        ELSE IF r2.err # "" THEN [identical |-> FALSE, err |-> r2.err]
        ELSE IF Len(r1.contents) # Len(r2.contents)
        THEN [identical |-> FALSE, err |-> ""]
        ELSE [identical |->
                 \A k \in 1..Len(r1.contents) : r1.contents[k] = r2.contents[k],
              err |-> ""]

----------------------------------------------------------------------------
(* Resolution Engine *)

Outcome(found, e, rm, lines) ==
    [foundRule |-> found, err |-> e, removed |-> rm, log |-> lines]

\* removeSecond without the test of live
removeSecondAlways(file1, file2, isLive, dsk) ==
    IF dsk[file2.Path].exists
    THEN Outcome(TRUE, "", {file2.Path},
                 <<Line("Deleting", file2.Path, <<>>)>>)
    ELSE Outcome(TRUE, "unable to remove", {},
                 <<Line("Deleting", file2.Path, <<>>)>>)

\* the branch taken when file1 is in the keep and file2 in the remove directory
removeSecond(file1, file2, isLive, dsk) ==
    IF isLive
    THEN IF dsk[file2.Path].exists
         THEN Outcome(TRUE, "", {file2.Path},
                      <<Line("Deleting", file2.Path, <<>>)>>)
         ELSE Outcome(TRUE, "unable to remove", {},
                      <<Line("Deleting", file2.Path, <<>>)>>)
    ELSE Outcome(TRUE, "", {},
                 <<Line("Non-live mode. Would delete", file2.Path, <<>>)>>)

\* removeFirst giving file2 to os.Remove
removeFirstWrongFile(file1, file2, isLive, dsk) ==
    IF isLive
    THEN IF dsk[file2.Path].exists
         THEN Outcome(TRUE, "", {file2.Path},
                      <<Line("Deleting", file2.Path, <<>>)>>)
         ELSE Outcome(TRUE, "unable to remove", {},
                      <<Line("Deleting", file2.Path, <<>>)>>)
    ELSE Outcome(TRUE, "", {},
                 <<Line("Non-live mode. Would delete", file2.Path, <<>>)>>)

\* the branch taken when file1 is in the remove and file2 in the keep directory
removeFirst(file1, file2, isLive, dsk) ==
    IF isLive
    THEN IF dsk[file1.Path].exists
         THEN Outcome(TRUE, "", {file1.Path},
                      <<Line("Deleting", file1.Path, <<>>)>>)
         ELSE Outcome(TRUE, "unable to remove", {},
                      <<Line("Deleting", file1.Path, <<>>)>>)
    ELSE Outcome(TRUE, "", {},
                 <<Line("Non-live mode. Would delete", file2.Path, <<>>)>>)

\* resolveFrom going on to the next rule after a rule has acted
RECURSIVE resolveFromContinue(_, _, _, _, _, _)
resolveFromContinue(rs, k, file1, file2, isLive, dsk) ==
    IF k > Len(rs)
    THEN Outcome(FALSE, "", {}, <<>>)
    ELSE LET rest == resolveFromContinue(rs, k + 1, file1, file2, isLive, dsk)
             here ==
                 IF SplitDir(file1.Path) = rs[k].KeepDir
                    /\ SplitDir(file2.Path) = rs[k].RemoveDir
                 THEN removeSecond(file1, file2, isLive, dsk)
                 ELSE IF SplitDir(file1.Path) = rs[k].RemoveDir
                         /\ SplitDir(file2.Path) = rs[k].KeepDir
                 THEN removeFirst(file1, file2, isLive, dsk)
                 ELSE Outcome(FALSE, "", {}, <<>>)
         IN  Outcome(here.foundRule \/ rest.foundRule,
                     IF here.err # "" THEN here.err ELSE rest.err,
                     here.removed \cup rest.removed,
                     here.log \o rest.log)

RECURSIVE resolveFrom(_, _, _, _, _, _)
resolveFrom(rs, k, file1, file2, isLive, dsk) ==
    IF k > Len(rs)
    THEN Outcome(FALSE, "", {}, <<>>)
    ELSE IF SplitDir(file1.Path) = rs[k].KeepDir
            /\ SplitDir(file2.Path) = rs[k].RemoveDir
    THEN removeSecond(file1, file2, isLive, dsk)
    ELSE IF SplitDir(file1.Path) = rs[k].RemoveDir
            /\ SplitDir(file2.Path) = rs[k].KeepDir
    THEN removeFirst(file1, file2, isLive, dsk)
    ELSE resolveFrom(rs, k + 1, file1, file2, isLive, dsk)

resolveDuplicate(rs, file1, file2, isLive, dsk) ==
    resolveFrom(rs, 1, file1, file2, isLive, dsk)

----------------------------------------------------------------------------
(* Inventory Builder *)

Present(dsk) == { e \in TreeEntries : dsk[PathOf(e)].exists }

\* the orders findFiles can return: Readdir lists the entries of a directory
\* in any order and the files of a subdirectory are appended together
ReaddirOrders(dsk) ==
    { s \in [1..Cardinality(Present(dsk)) -> Present(dsk)] :
        /\ \A j, k \in DOMAIN s : j # k => s[j] # s[k]
        /\ \A j, k, m \in DOMAIN s :
              (j < k /\ k < m /\ s[j][1] = s[m][1]) => s[k][1] = s[j][1] }

NewFile(e, dsk) ==
    [Basename |-> e[2], Path |-> PathOf(e),
     Size |-> Len(dsk[PathOf(e)].data), Hash |-> NilHash]

Digests == { NilHash } \cup { md5Sum(c) : c \in Contents }

----------------------------------------------------------------------------
(* The run *)

Disks ==
    { d \in [PathPool -> { NoFile } \cup { OnDisk(c) : c \in Contents }] :
        Cardinality({ p \in PathPool : d[p].exists }) <= MaxFiles }

Init ==
    /\ config \in Configs
    /\ live \in BOOLEAN
    /\ disk \in Disks
    /\ disk0 = disk
    /\ pc = "readRules"
    /\ rules = <<>>
    /\ files = <<>>
    /\ i = 1
    /\ checksumToFile = [d \in Digests |-> 0]
    /\ removed = {}
    /\ log = <<>>
    /\ err = NoErr
    /\ interfered = FALSE

Fatal(e) ==
    /\ pc' = "fatal"
    /\ err' = e

\* main: rules, err := readRules(args.Config)
ReadRules ==
    /\ pc = "readRules"
    /\ LET r == readRules(config)
       IN  IF r.err # ""
           THEN Fatal(Error(r.err, <<>>, <<>>)) /\ UNCHANGED rules
           ELSE rules' = r.rules /\ pc' = "findFiles" /\ UNCHANGED err
    /\ UNCHANGED <<config, live, disk, disk0, files, i, checksumToFile,
                   removed, log, interfered>>

\* main: files, err := findFiles(args.Dir)
FindFiles ==
    /\ pc = "findFiles"
    /\ \E s \in ReaddirOrders(disk) :
          files' = [k \in DOMAIN s |-> NewFile(s[k], disk)]
    /\ log' = IF Len(files') = 0
              THEN Append(log, Line("No files found.", <<>>, <<>>))
              ELSE log
    /\ pc' = "calculateChecksums"
    /\ i' = 1
    /\ UNCHANGED <<config, live, disk, disk0, rules, checksumToFile,
                   removed, err, interfered>>

\* HashFile going on to the next file when a file cannot be hashed
HashFileSkip ==
    /\ pc = "calculateChecksums"
    /\ i <= Len(files)
    /\ LET file == files[i]
           d == disk[file.Path]
       IN  IF ~d.exists \/ Len(d.data) # file.Size
           THEN UNCHANGED files
           ELSE files' = [files EXCEPT ![i].Hash = md5Sum(d.data)]
    /\ i' = i + 1
    /\ UNCHANGED <<config, live, disk, disk0, pc, rules, checksumToFile,
                   removed, log, err, interfered>>

\* one iteration of the loop of calculateChecksums
HashFile ==
    /\ pc = "calculateChecksums"
    /\ i <= Len(files)
    /\ LET file == files[i]
           d == disk[file.Path]
       IN  IF ~d.exists
           THEN Fatal(Error("open", file.Path, <<>>)) /\ UNCHANGED <<files, i>>
           ELSE IF Len(d.data) # file.Size
           THEN Fatal(Error("short read/write", file.Path, <<>>))
                /\ UNCHANGED <<files, i>>
           ELSE /\ files' = [files EXCEPT ![i].Hash = md5Sum(d.data)]
                /\ i' = i + 1
                /\ UNCHANGED <<pc, err>>
    /\ UNCHANGED <<config, live, disk, disk0, rules, checksumToFile,
                   removed, log, interfered>>

\* calculateChecksums returns nil
ChecksumsDone ==
    /\ pc = "calculateChecksums"
    /\ i > Len(files)
    /\ pc' = "reportAndResolveDuplicates"
    /\ i' = 1
    /\ UNCHANGED <<config, live, disk, disk0, rules, files, checksumToFile,
                   removed, log, err, interfered>>

\* ResolveFile storing the current file as the representative of its digest
\* after a verified duplicate
ResolveFileReplace ==
    /\ pc = "reportAndResolveDuplicates"
    /\ i <= Len(files)
    /\ LET file == files[i]
           checksum == file.Hash
           ok == checksumToFile[checksum] # 0
       IN  IF ~ok
           THEN /\ checksumToFile' = [checksumToFile EXCEPT ![checksum] = i]
                /\ i' = i + 1
                /\ UNCHANGED <<disk, removed, log, pc, err>>
           ELSE LET foundFile == files[checksumToFile[checksum]]
                    cmp == isIdentical(foundFile, file, disk)
                    res == resolveDuplicate(rules, foundFile, file, live, disk)
                IN  IF cmp.err # ""
                    THEN /\ Fatal(Error("unable to compare files",
                                        foundFile.Path, file.Path))
                         /\ UNCHANGED <<checksumToFile, i, disk, removed, log>>
                    ELSE IF ~cmp.identical
                    THEN /\ Fatal(Error(
                              "hash collision but the files are not identical!",
                              file.Path, foundFile.Path))
                         /\ UNCHANGED <<checksumToFile, i, disk, removed, log>>
                    ELSE /\ disk' = [p \in PathPool |->
                                       IF p \in res.removed THEN NoFile
                                       ELSE disk[p]]
                         /\ removed' = removed \cup res.removed
                         /\ log' = log
                               \o <<Line("Duplicate files found",
                                         file.Path, foundFile.Path)>>
                               \o res.log
                               \o IF res.err = "" /\ ~res.foundRule
                                  THEN <<Line("No rule found for duplicate files",
                                              file.Path, foundFile.Path)>>
                                  ELSE <<>>
                         /\ IF res.err # ""
                            THEN Fatal(Error(res.err, file.Path, foundFile.Path))
                                 /\ UNCHANGED i
                            ELSE i' = i + 1 /\ UNCHANGED <<pc, err>>
                         /\ checksumToFile' =
                               [checksumToFile EXCEPT ![checksum] = i]
    /\ UNCHANGED <<config, live, disk0, rules, files, interfered>>

\* one iteration of the loop of reportAndResolveDuplicates
ResolveFile ==
    /\ pc = "reportAndResolveDuplicates"
    /\ i <= Len(files)
    /\ LET file == files[i]
           checksum == file.Hash
           ok == checksumToFile[checksum] # 0
       IN  IF ~ok
           THEN /\ checksumToFile' = [checksumToFile EXCEPT ![checksum] = i]
                /\ i' = i + 1
                /\ UNCHANGED <<disk, removed, log, pc, err>>
           ELSE LET foundFile == files[checksumToFile[checksum]]
                    cmp == isIdentical(foundFile, file, disk)
                    res == resolveDuplicate(rules, foundFile, file, live, disk)
                IN  IF cmp.err # ""
                    THEN /\ Fatal(Error("unable to compare files",
                                        foundFile.Path, file.Path))
                         /\ UNCHANGED <<checksumToFile, i, disk, removed, log>>
                    ELSE IF ~cmp.identical
                    THEN /\ Fatal(Error(
                              "hash collision but the files are not identical!",
                              file.Path, foundFile.Path))
                         /\ UNCHANGED <<checksumToFile, i, disk, removed, log>>
                    ELSE /\ disk' = [p \in PathPool |->
                                       IF p \in res.removed THEN NoFile
                                       ELSE disk[p]]
                         /\ removed' = removed \cup res.removed
                         /\ log' = log
                               \o <<Line("Duplicate files found",
                                         file.Path, foundFile.Path)>>
                               \o res.log
                               \o IF res.err = "" /\ ~res.foundRule
                                  THEN <<Line("No rule found for duplicate files",
                                              file.Path, foundFile.Path)>>
                                  ELSE <<>>
                         /\ IF res.err # ""
                            THEN Fatal(Error(res.err, file.Path, foundFile.Path))
                                 /\ UNCHANGED i
                            ELSE i' = i + 1 /\ UNCHANGED <<pc, err>>
                         /\ UNCHANGED checksumToFile
    /\ UNCHANGED <<config, live, disk0, rules, files, interfered>>

\* reportAndResolveDuplicates returns nil and main ends
ResolveDone ==
    /\ pc = "reportAndResolveDuplicates"
    /\ i > Len(files)
    /\ pc' = "done"
    /\ UNCHANGED <<config, live, disk, disk0, rules, files, i, checksumToFile,
                   removed, log, err, interfered>>

\* another process removes a file between the scan and the end of the run
InterfereRemove ==
    /\ pc \in { "calculateChecksums", "reportAndResolveDuplicates" }
    /\ ~interfered
    /\ \E p \in PathPool :
          /\ disk[p].exists
          /\ disk' = [disk EXCEPT ![p] = NoFile]
    /\ interfered' = TRUE
    /\ UNCHANGED <<config, live, disk0, pc, rules, files, i, checksumToFile,
                   removed, log, err>>

\* another process truncates a file between the scan and the end of the run
InterfereTruncate ==
    /\ pc \in { "calculateChecksums", "reportAndResolveDuplicates" }
    /\ ~interfered
    /\ \E p \in PathPool :
          /\ disk[p].exists
          /\ Len(disk[p].data) > 0
          /\ disk' = [disk EXCEPT ![p] = OnDisk(<<>>)]
    /\ interfered' = TRUE
    /\ UNCHANGED <<config, live, disk0, pc, rules, files, i, checksumToFile,
                   removed, log, err>>

Next ==
    \/ ReadRules
    \/ FindFiles
    \/ HashFile
    \/ ChecksumsDone
    \/ ResolveFile
    \/ ResolveDone
    \/ InterfereRemove
    \/ InterfereTruncate

Spec == Init /\ [][Next]_vars

----------------------------------------------------------------------------
(* Vocabulary of the properties *)

CollisionMsg == "hash collision but the files are not identical!"

HashErrors == { "open", "short read/write" }

RuleErrors ==
    { "no rules found", "rule is missing keep/remove directory",
      "rule has non-absolute keep/remove directory",
      "rule has identical keep/remove directory" }

\* the step is one of the program, not of another process
ProgramStep == interfered' = interfered

\* the step reports a verified duplicate pair
ReportsPair ==
    /\ Len(log') > Len(log)
    /\ log'[Len(log) + 1].kind = "Duplicate files found"

\* rule r matches the directories of paths p and q, in either role
Matches(r, p, q) ==
    \/ SplitDir(p) = r.KeepDir /\ SplitDir(q) = r.RemoveDir
    \/ SplitDir(p) = r.RemoveDir /\ SplitDir(q) = r.KeepDir

Matching(rs, p, q) == { k \in 1..Len(rs) : Matches(rs[k], p, q) }

FirstMatching(rs, p, q) ==
    CHOOSE k \in Matching(rs, p, q) : \A m \in Matching(rs, p, q) : k <= m

\* the file of the pair that lies in the remove directory of rule r
InRemoveDir(r, p, q) == IF SplitDir(p) = r.RemoveDir THEN p ELSE q

InKeepDir(r, p, q) == IF SplitDir(p) = r.KeepDir THEN p ELSE q

Gone(dsk, p) == [dsk EXCEPT ![p] = NoFile]

\* the pair of the line log[k], a "Duplicate files found" line
PairOf(l) == { l.a, l.b }

Reported(p, q) ==
    \E k \in 1..Len(log) :
        log[k].kind = "Duplicate files found" /\ PairOf(log[k]) = { p, q }

----------------------------------------------------------------------------
(* C1 *)

\* C1: in dry-run mode (live = FALSE) the run removes no file: the set of
\* removed files stays empty and, unless another process changed a file,
\* the disk is the disk the run started with.
C1_DryRunDeletesNothing ==
    ~live => (removed = {} /\ (~interfered => disk = disk0))

C1_Witness ==
    /\ ~live
    /\ pc = "done"
    /\ \E k \in 1..Len(log) : log[k].kind = "Non-live mode. Would delete"

----------------------------------------------------------------------------
(* C2 *)

C2_Step ==
    (live /\ ProgramStep /\ ReportsPair) =>
        LET p == log'[Len(log) + 1].b
            q == log'[Len(log) + 1].a
        IN  IF Matching(rules, p, q) = {}
            THEN removed' = removed /\ disk' = disk
            ELSE LET r == rules[FirstMatching(rules, p, q)]
                 IN  /\ removed' = removed \cup { InRemoveDir(r, p, q) }
                     /\ InRemoveDir(r, p, q) \notin removed
                     /\ disk' = Gone(disk, InRemoveDir(r, p, q))
                     /\ disk'[InKeepDir(r, p, q)] = disk[InKeepDir(r, p, q)]
                     /\ disk[InKeepDir(r, p, q)].exists
                     /\ InKeepDir(r, p, q) # InRemoveDir(r, p, q)

\* C2: in live mode, a step that reports a verified duplicate pair removes
\* exactly one file when some rule matches the pair's two parent directories:
\* the file in the remove directory of the first matching rule; the file in
\* that rule's keep directory stays, and no later rule acts. It removes
\* nothing when no rule matches.
C2_FirstMatchingRuleRemovesOne == [][C2_Step]_vars

\* both rules match the pair and disagree; the first one has acted
C2_Witness ==
    /\ live
    /\ rules = <<RuleKeepA, RuleKeepB>>
    /\ removed = { PathBY }
    /\ disk[PathAX].exists
    /\ pc = "done"

----------------------------------------------------------------------------
(* C3 *)

\* C3: of every set of byte-identical files that existed when the run
\* started, at least one member was not removed by the run, and it is still
\* on disk with that content unless another process changed a file.
C3_OneCopySurvives ==
    \A c \in Contents :
        (\E p \in PathPool : disk0[p] = OnDisk(c)) =>
            \E p \in PathPool :
                /\ disk0[p] = OnDisk(c)
                /\ p \notin removed
                /\ ~interfered => disk[p] = OnDisk(c)

\* three identical files, two of them removed
C3_Witness ==
    /\ pc = "done"
    /\ Cardinality(removed) = 2
    /\ \E c \in Contents : \A p \in removed : disk0[p] = OnDisk(c)

----------------------------------------------------------------------------
(* C4 *)

\* the file of the current iteration and the representative of its digest
\* are both readable and differ in content
C4_Collided ==
    /\ pc = "reportAndResolveDuplicates"
    /\ i <= Len(files)
    /\ checksumToFile[files[i].Hash] # 0
    /\ LET file == files[i]
           foundFile == files[checksumToFile[files[i].Hash]]
       IN  /\ disk[file.Path].exists
           /\ disk[foundFile.Path].exists
           /\ Len(disk[file.Path].data) = file.Size
           /\ Len(disk[foundFile.Path].data) = foundFile.Size
           /\ disk[file.Path].data # disk[foundFile.Path].data

C4_Step ==
    ProgramStep =>
        /\ C4_Collided =>
              /\ disk' = disk
              /\ removed' = removed
              /\ log' = log
              /\ err' = Error(CollisionMsg, files[i].Path,
                              files[checksumToFile[files[i].Hash]].Path)
        /\ removed' # removed =>
              /\ ReportsPair
              /\ disk[log'[Len(log) + 1].a] = disk[log'[Len(log) + 1].b]
              /\ disk[log'[Len(log) + 1].a].exists

\* C4: when the current file and the representative of its digest differ in
\* content, the step reports the hash collision and removes nothing, also in
\* live mode with a matching rule; a file is removed only in a step that
\* reports a pair of files whose contents are equal.
C4_CollisionDeletesNothing == [][C4_Step]_vars

C4_Witness ==
    /\ live
    /\ err.msg = CollisionMsg
    /\ Matching(rules, err.a, err.b) # {}
    /\ disk[err.a].exists /\ disk[err.b].exists

----------------------------------------------------------------------------
(* C5 *)

\* C5: with the rule written as documented, keep "/a" and remove "/b", and
\* the verified duplicate pair /a/x.png, /b/y.png, a live run removes
\* /b/y.png and keeps /a/x.png, and a dry run reports that /b/y.png would
\* be deleted.
C5_DocumentedRuleResolves ==
    (/\ pc = "done"
     /\ ~interfered
     /\ rules = <<RuleReadme>>
     /\ Reported(PathAX, PathBY)) =>
        IF live
        THEN PathBY \in removed /\ ~disk[PathBY].exists /\ disk[PathAX].exists
        ELSE \E k \in 1..Len(log) :
                 log[k] = Line("Non-live mode. Would delete", PathBY, <<>>)

----------------------------------------------------------------------------
(* C6 *)

\* C6: for a reported pair that a rule matches, the line after the report
\* names the file in the remove directory of the first matching rule,
\* whichever of the two files was found first: as deleted in live mode, as
\* the file that would be deleted in dry-run mode.
C6_SameFileEitherOrder ==
    \A k \in 1..Len(log) :
        (/\ log[k].kind = "Duplicate files found"
         /\ Matching(rules, log[k].a, log[k].b) # {}) =>
            /\ k < Len(log)
            /\ log[k + 1] =
                 Line(IF live THEN "Deleting" ELSE "Non-live mode. Would delete",
                      InRemoveDir(rules[FirstMatching(rules, log[k].a, log[k].b)],
                                  log[k].a, log[k].b),
                      <<>>)

----------------------------------------------------------------------------
(* C7 *)

\* C7: a digest collision without identity is not fatal: the run never
\* stops with the hash collision as its error.
C7_CollisionNotFatal ==
    err.msg = CollisionMsg => pc # "fatal"

----------------------------------------------------------------------------
(* C8 *)

\* C8: when the run has ended and no other process changed a file, every
\* two files of the inventory with identical content have been reported as
\* a duplicate pair.
C8_IdenticalPairsReported ==
    (pc \in { "done", "fatal" } /\ ~interfered) =>
        \A j, k \in 1..Len(files) :
            (j < k /\ disk0[files[j].Path] = disk0[files[k].Path]) =>
                Reported(files[j].Path, files[k].Path)

----------------------------------------------------------------------------
(* C9 *)

IsAbsolute(d) == Len(d) > 0 /\ d[1] = Sep

ValidRule(r) ==
    /\ Len(r.KeepDir) > 0
    /\ Len(r.RemoveDir) > 0
    /\ IsAbsolute(r.KeepDir)
    /\ IsAbsolute(r.RemoveDir)
    /\ r.KeepDir # r.RemoveDir

ValidConfig(c) == Len(c) > 0 /\ \A k \in 1..Len(c) : ValidRule(c[k])

\* C9: once readRules has run, a configuration that is empty or holds a
\* rule with an empty, non-absolute or identical keep/remove directory has
\* ended the run with an error before any scan or deletion; otherwise the
\* rules are the configuration's, so every rule set in use is non-empty
\* with non-empty, absolute, distinct keep and remove directories.
C9_ReadRulesRejects ==
    pc # "readRules" =>
        IF ValidConfig(config)
        THEN rules = config /\ err.msg \notin RuleErrors
        ELSE /\ pc = "fatal"
             /\ err.msg \in RuleErrors
             /\ rules = <<>>
             /\ files = <<>>
             /\ log = <<>>
             /\ removed = {}
             /\ disk = disk0

C9_Witness ==
    /\ pc = "fatal"
    /\ err.msg = "rule has non-absolute keep/remove directory"
    /\ Len(config) = 2
    /\ ValidRule(config[1])
    /\ IsAbsolute(config[2].KeepDir)

----------------------------------------------------------------------------
(* C10 *)

Hashed == \A k \in 1..Len(files) : files[k].Hash # NilHash

IndexEmpty == \A d \in Digests : checksumToFile[d] = 0

NoPairLine ==
    \A k \in 1..Len(log) : log[k].kind = "No files found."

\* the file calculateChecksums is about to hash cannot be hashed
C10_Unhashable ==
    /\ pc = "calculateChecksums"
    /\ i <= Len(files)
    /\ \/ ~disk[files[i].Path].exists
       \/ Len(disk[files[i].Path].data) # files[i].Size

C10_State ==
    /\ (~IndexEmpty \/ ~NoPairLine \/ removed # {}) => Hashed
    /\ pc = "reportAndResolveDuplicates" => Hashed
    /\ err.msg \in HashErrors =>
          pc = "fatal" /\ removed = {} /\ IndexEmpty /\ NoPairLine

C10_Step ==
    (ProgramStep /\ C10_Unhashable) =>
        /\ pc' = "fatal"
        /\ err'.msg \in HashErrors
        /\ err'.a = files[i].Path
        /\ removed' = {}
        /\ disk' = disk

\* C10: no file is looked up in the index, compared or removed before
\* every file of the inventory is hashed, and a file that cannot be hashed
\* (it is gone, or its length differs from the recorded size) ends the run
\* with an error with no file removed.
C10_HashThenResolve == []C10_State /\ [][C10_Step]_vars

\* the second file failed to hash in a live run whose rule matches
C10_Witness ==
    /\ live
    /\ err.msg = "short read/write"
    /\ Len(files) = 3
    /\ files[1].Hash # NilHash
    /\ files[2].Hash = NilHash
    /\ Matching(rules, files[1].Path, files[3].Path) # {}
    /\ disk0[files[1].Path] = disk0[files[3].Path]

----------------------------------------------------------------------------
(* C11 *)

\* the representative stored for digest d, 0 when there is none
C11_Representative(d) == checksumToFile[d]

C11_State ==
    \A d \in Digests :
        C11_Representative(d) # 0 =>
            /\ C11_Representative(d) \in 1..Len(files)
            /\ files[C11_Representative(d)].Hash = d
            /\ \A k \in 1..Len(files) :
                  files[k].Hash = d => C11_Representative(d) <= k

C11_Step ==
    \A d \in Digests :
        C11_Representative(d) # 0 =>
            checksumToFile'[d] = C11_Representative(d)

\* C11: the index holds at most one file per digest, the first file of the
\* inventory with that digest, and a stored representative is never
\* replaced, whatever happens to the later files with the same digest.
C11_FirstSeenRepresentative == []C11_State /\ [][C11_Step]_vars

\* three files with one digest, the later two verified and removed
C11_Witness ==
    /\ pc = "done"
    /\ Len(files) = 3
    /\ files[2].Hash = files[1].Hash
    /\ files[3].Hash = files[1].Hash
    /\ checksumToFile[files[1].Hash] = 1
    /\ removed = { files[2].Path, files[3].Path }

----------------------------------------------------------------------------
(* C12 *)

\* the run is about to call isIdentical on the representative and files[i]
C12_Comparing ==
    /\ pc = "reportAndResolveDuplicates"
    /\ i <= Len(files)
    /\ checksumToFile[files[i].Hash] # 0

\* C12: in live mode, when isIdentical is called on the representative and
\* the current file, the run has removed neither of them.
C12_ComparedFilesNotRemoved ==
    (live /\ C12_Comparing) =>
        /\ files[checksumToFile[files[i].Hash]].Path \notin removed
        /\ files[i].Path \notin removed

====
